---- MODULE Spec2Model ----
(***************************************************************************)
(* A model of the event-capture server of CodeChat_Editor                  *)
(* (src/capture/src/main.rs): the in-memory EventStore behind one          *)
(* std::sync::Mutex, the file events.log that add_event appends to and on  *)
(* which main installs a WriteLogger, and the two warp handlers            *)
(* handle_log_event and handle_get_events, run by concurrent tasks; and of  *)
(* EventCapture::insert_event (src/server/src/capture.rs), which inserts   *)
(* events through one database client behind a tokio Mutex.                *)
(***************************************************************************)
EXTENDS Integers, Sequences, FiniteSets, TLC

\* ------------------------------------------------------------------ bounds
MaxReqs == 3        \* requests received in one behaviour
MaxFaults == 1      \* I/O faults (a failing open or write of events.log)
MaxLogMsgs == 1     \* records the installed logger writes
MaxCrashes == 1     \* crashes of the process (SpecRestart only)
MaxDbReqs == 3      \* calls of insert_event in one behaviour
MaxDbErrors == 1    \* statements the backend answers with an error

\* the tasks that handle requests concurrently, and "no task"
Procs == {1, 2}
\* the tasks that call insert_event on one EventCapture concurrently
Callers == {1, 2}
NoProc == 0

\* ------------------------------------------------------------- input sets
\* session ids a client may send; "" is the empty string
SessionIds == {"", "s1", "s2"}
EventTypes == {"click"}
Timestamps == {1, 2}

\* Option<String>: None is <<>>, Some(s) is <<s>>
None == <<>>
Some(s) == <<s>>
Options == {None} \cup {Some(s) : s \in SessionIds}

\* struct Event { event_type, timestamp, content }
Event == [event_type : EventTypes, timestamp : Timestamps, content : Options]

VARIABLES
    events,     \* EventStore.events: HashMap<String, Vec<Event>>
    holder,     \* the task holding the Mutex of EventStore.events, or NoProc
    poisoned,   \* the Mutex is poisoned (a holder panicked)
    file,       \* the content of events.log, a sequence of tokens
    logpos,     \* the file offset of the File handle the WriteLogger owns
    up,         \* the process is running
    pc,         \* pc[p]: where task p is in its handler
    req,        \* req[p]: the request task p is handling (or handled last)
    written,    \* written[p]: tokens of the record write_all has written
    result,     \* result[p]: what get_events returned to task p
    reply,      \* reply[p]: the outcome of the last request of task p
    nreq, nfault, nlog, ncrash,   \* counters that bound the behaviours
    accepted,   \* history: per key, the events whose add_event returned
    arrived,    \* history: per key, the events in the order add_event locked
    acked,      \* history: events acknowledged "Event logged" in this run
    ackedBefore \* history: events acknowledged before the last crash

\* the state of the relational sink (src/server/src/capture.rs)
VARIABLES
    dbHolder,   \* the caller holding the tokio Mutex of db_client, or NoProc
    dbpc,       \* dbpc[d]: where caller d is in insert_event
    dbEvent,    \* dbEvent[d]: the event caller d passed to insert_event
    inflight,   \* the statements the backend is executing
    rows,       \* the rows of the table events, in insertion order
    dbResp,     \* dbResp[d]: the backend's answer to the statement of d
    dbResult,   \* dbResult[d]: what insert_event returned to caller d
    ndbreq, ndberr,   \* counters that bound the behaviours
    inserted    \* history: the events whose insert_event returned Ok

capvars == <<events, holder, poisoned, file, logpos, up, pc, req, written,
             result, reply, nreq, nfault, nlog, ncrash, accepted, arrived,
             acked, ackedBefore>>

dbvars == <<dbHolder, dbpc, dbEvent, inflight, rows, dbResp, dbResult,
            ndbreq, ndberr, inserted>>

vars == <<capvars, dbvars>>

\* --------------------------------------------------------------- helpers
EmptyMap == [k \in {} |-> <<>>]

\* MapGet that answers an absent key with an empty sequence
MapGetOrDefault(m, k) == IF k \in DOMAIN m THEN Some(m[k]) ELSE Some(<<>>)

\* HashMap::get(k).cloned(): None when the key is absent
MapGet(m, k) == IF k \in DOMAIN m THEN Some(m[k]) ELSE None

\* MapPush with the new event put at the head of the key's sequence
MapPushFront(m, k, e) ==
    [x \in DOMAIN m \cup {k} |->
        IF x = k THEN <<e>> \o (IF k \in DOMAIN m THEN m[k] ELSE <<>>)
        ELSE m[x]]

\* MapPush that builds a new map holding key k only
MapPushAlone(m, k, e) ==
    [x \in {k} |-> Append(IF k \in DOMAIN m THEN m[k] ELSE <<>>, e)]

\* MapPush that starts the key's sequence anew (insert() in place of entry())
MapPushReplace(m, k, e) ==
    [x \in DOMAIN m \cup {k} |-> IF x = k THEN <<e>> ELSE m[x]]

\* events.entry(k).or_default().push(e)
MapPush(m, k, e) ==
    [x \in DOMAIN m \cup {k} |->
        IF x = k THEN Append(IF k \in DOMAIN m THEN m[k] ELSE <<>>, e)
        ELSE m[x]]

\* the histories are kept apart from the store's own push
Record(h, k, e) ==
    [x \in DOMAIN h \cup {k} |->
        IF x = k THEN (IF k \in DOMAIN h THEN h[k] ELSE <<>>) \o <<e>>
        ELSE h[x]]

\* format!("{:?}\n", event): the Debug dump of the fields, then a newline
Format(e) == << <<"Event", e.event_type, e.timestamp, e.content>>, <<"\n">> >>

\* what the logger writes for one record: a line of text, then a newline
LogRecord == << <<"INFO", "log">>, <<"\n">> >>

\* a write of bytes through a handle opened with append(true): at the end
FileAppend(f, bytes) == f \o bytes

\* a write of bytes through a handle without O_APPEND, at its own offset pos
FileWriteAt(f, pos, bytes) ==
    LET n == IF pos + Len(bytes) > Len(f) THEN pos + Len(bytes) ELSE Len(f)
    IN [i \in 1..n |->
           IF i > pos /\ i <= pos + Len(bytes) THEN bytes[i - pos] ELSE f[i]]

NoReply == [msg |-> "none", events |-> <<>>]
Msg(s) == [msg |-> s, events |-> <<>>]
JsonEvents(v) == [msg |-> "events", events |-> v]
NoReq == [kind |-> "none", event |-> <<>>, params |-> None]
LogReq(e) == [kind |-> "log_event", event |-> <<e>>, params |-> None]
GetReq(ps) == [kind |-> "get_events", event |-> <<>>, params |-> ps]

\* struct Event of capture.rs: { user_id, event_type, timestamp, data }
DbEvent == [user_id : {"u1"}, event_type : {"keystroke"},
            timestamp : {"t1", "t2"}, data : {None, Some("x")}]
NoDbEvent == [user_id |-> "", event_type |-> "", timestamp |-> "",
              data |-> None]

\* the errors the backend may answer a statement with
PgErrors == {"closed", "constraint"}

\* Result<(), PgError>, and "nothing yet"
NoResult == [kind |-> "none", err |-> ""]
Ok == [kind |-> "Ok", err |-> ""]
Err(e) == [kind |-> "Err", err |-> e]

\* ------------------------------------------------------------------ Init
\* main has run: File::create made events.log empty, the logger's handle is
\* at offset 0, the store is new; EventCapture::new has connected: the
\* client is unlocked and no statement is under way
Init ==
    /\ events = EmptyMap
    /\ holder = NoProc
    /\ poisoned = FALSE
    /\ file = <<>>
    /\ logpos = 0
    /\ up = TRUE
    /\ pc = [p \in Procs |-> "idle"]
    /\ req = [p \in Procs |-> NoReq]
    /\ written = [p \in Procs |-> 0]
    /\ result = [p \in Procs |-> None]
    /\ reply = [p \in Procs |-> NoReply]
    /\ nreq = 0 /\ nfault = 0 /\ nlog = 0 /\ ncrash = 0
    /\ accepted = EmptyMap
    /\ arrived = EmptyMap
    /\ acked = {}
    /\ ackedBefore = {}
    /\ dbHolder = NoProc
    /\ dbpc = [d \in Callers |-> "idle"]
    /\ dbEvent = [d \in Callers |-> NoDbEvent]
    /\ inflight = {}
    /\ rows = <<>>
    /\ dbResp = [d \in Callers |-> NoResult]
    /\ dbResult = [d \in Callers |-> NoResult]
    /\ ndbreq = 0 /\ ndberr = 0
    /\ inserted = <<>>


\* --------------------------------------------------------------- actions
TheEvent(p) == req[p].event[1]
SessionId(p) == TheEvent(p).content[1]
QueryKey(p) == req[p].params[1]

\* a panic of task p: the task ends without a reply; a MutexGuard it holds is
\* dropped while panicking, which unlocks and poisons the Mutex
Panic(p, why) ==
    /\ pc' = [pc EXCEPT ![p] = "idle"]
    /\ reply' = [reply EXCEPT ![p] = Msg(why)]
    /\ written' = [written EXCEPT ![p] = 0]
    /\ IF holder = p
       THEN holder' = NoProc /\ poisoned' = TRUE
       ELSE UNCHANGED <<holder, poisoned>>

\* LogEventMissing that appends the event's record to events.log before it
\* looks at the key
LogEventMissingLogged(p) ==
    /\ up /\ pc[p] = "idle" /\ nreq < MaxReqs
    /\ \E e \in Event :
          /\ e.content = None
          /\ req' = [req EXCEPT ![p] = LogReq(e)]
          /\ file' = FileAppend(file, Format(e))
    /\ reply' = [reply EXCEPT ![p] = Msg("Missing session_id")]
    /\ nreq' = nreq + 1
    /\ UNCHANGED <<events, holder, poisoned, logpos, up, pc, written,
                   result, nfault, nlog, ncrash, accepted, arrived, acked,
                   ackedBefore>>
    /\ UNCHANGED dbvars

\* handle_log_event, the else branch: event.content is None
LogEventMissing(p) ==
    /\ up /\ pc[p] = "idle" /\ nreq < MaxReqs
    /\ \E e \in Event :
          /\ e.content = None
          /\ req' = [req EXCEPT ![p] = LogReq(e)]
    /\ reply' = [reply EXCEPT ![p] = Msg("Missing session_id")]
    /\ nreq' = nreq + 1
    /\ UNCHANGED <<events, holder, poisoned, file, logpos, up, pc, written,
                   result, nfault, nlog, ncrash, accepted, arrived, acked,
                   ackedBefore>>
    /\ UNCHANGED dbvars

\* handle_log_event, the if branch: event.content is Some(session_id)
LogEventStart(p) ==
    /\ up /\ pc[p] = "idle" /\ nreq < MaxReqs
    /\ \E e \in Event :
          /\ e.content # None
          /\ req' = [req EXCEPT ![p] = LogReq(e)]
    /\ reply' = [reply EXCEPT ![p] = NoReply]
    /\ pc' = [pc EXCEPT ![p] = "add_lock"]
    /\ nreq' = nreq + 1
    /\ UNCHANGED <<events, holder, poisoned, file, logpos, up, written,
                   result, nfault, nlog, ncrash, accepted, arrived, acked,
                   ackedBefore>>
    /\ UNCHANGED dbvars

\* add_event: self.events.lock().unwrap(), the Mutex is sound
AddEventLock(p) ==
    /\ pc[p] = "add_lock" /\ holder = NoProc /\ ~poisoned
    /\ holder' = p
    /\ arrived' = Record(arrived, SessionId(p), TheEvent(p))
    /\ pc' = [pc EXCEPT ![p] = "add_push"]
    /\ UNCHANGED <<events, poisoned, file, logpos, up, req, written, result,
                   reply, nreq, nfault, nlog, ncrash, accepted, acked,
                   ackedBefore>>
    /\ UNCHANGED dbvars

\* add_event: self.events.lock().unwrap(), the Mutex is poisoned: lock()
\* returns Err(PoisonError) and unwrap panics
AddEventLockPoisoned(p) ==
    /\ pc[p] = "add_lock" /\ holder = NoProc /\ poisoned
    /\ Panic(p, "PoisonError")
    /\ UNCHANGED <<events, file, logpos, up, req, result, nreq, nfault, nlog,
                   ncrash, accepted, arrived, acked, ackedBefore>>
    /\ UNCHANGED dbvars

\* AddEventPush whose lock ends with the push (the guard is scoped to it)
AddEventPushUnlock(p) ==
    /\ pc[p] = "add_push"
    /\ events' = MapPush(events, SessionId(p), TheEvent(p))
    /\ holder' = NoProc
    /\ pc' = [pc EXCEPT ![p] = "add_open"]
    /\ UNCHANGED <<poisoned, file, logpos, up, req, written, result,
                   reply, nreq, nfault, nlog, ncrash, accepted, arrived,
                   acked, ackedBefore>>
    /\ UNCHANGED dbvars

\* add_event: events.entry(session_id).or_default().push(event.clone())
AddEventPush(p) ==
    /\ pc[p] = "add_push"
    /\ events' = MapPush(events, SessionId(p), TheEvent(p))
    /\ pc' = [pc EXCEPT ![p] = "add_open"]
    /\ UNCHANGED <<holder, poisoned, file, logpos, up, req, written, result,
                   reply, nreq, nfault, nlog, ncrash, accepted, arrived,
                   acked, ackedBefore>>
    /\ UNCHANGED dbvars

\* add_event: File::options().append(true).open("events.log") succeeds
AddEventOpen(p) ==
    /\ pc[p] = "add_open"
    /\ pc' = [pc EXCEPT ![p] = "add_write"]
    /\ written' = [written EXCEPT ![p] = 0]
    /\ UNCHANGED <<events, holder, poisoned, file, logpos, up, req, result,
                   reply, nreq, nfault, nlog, ncrash, accepted, arrived,
                   acked, ackedBefore>>
    /\ UNCHANGED dbvars

\* add_event: the open fails and unwrap panics
AddEventOpenFail(p) ==
    /\ pc[p] = "add_open" /\ nfault < MaxFaults
    /\ Panic(p, "IoError")
    /\ nfault' = nfault + 1
    /\ UNCHANGED <<events, file, logpos, up, req, result, nreq, nlog, ncrash,
                   accepted, arrived, acked, ackedBefore>>
    /\ UNCHANGED dbvars

\* add_event: file.write_all(log_entry): one write call of its loop, which
\* appends n >= 1 of the tokens still to write
AddEventWrite(p) ==
    /\ pc[p] = "add_write"
    /\ LET rec == Format(TheEvent(p))
       IN \E n \in 1..(Len(rec) - written[p]) :
             /\ file' = FileAppend(file, SubSeq(rec, written[p] + 1,
                                                written[p] + n))
             /\ written' = [written EXCEPT ![p] = written[p] + n]
             /\ pc' = [pc EXCEPT ![p] = IF written[p] + n = Len(rec)
                                        THEN "add_ret" ELSE "add_write"]
    /\ UNCHANGED <<events, holder, poisoned, logpos, up, req, result, reply,
                   nreq, nfault, nlog, ncrash, accepted, arrived, acked,
                   ackedBefore>>
    /\ UNCHANGED dbvars

\* add_event: a write call of write_all fails and unwrap panics; what the
\* earlier calls of the loop wrote stays in the file
AddEventWriteFail(p) ==
    /\ pc[p] = "add_write" /\ nfault < MaxFaults
    /\ Panic(p, "IoError")
    /\ nfault' = nfault + 1
    /\ UNCHANGED <<events, file, logpos, up, req, result, nreq, nlog, ncrash,
                   accepted, arrived, acked, ackedBefore>>
    /\ UNCHANGED dbvars

\* AddEventReturn that keeps the Mutex locked (the guard is leaked)
AddEventReturnLocked(p) ==
    /\ pc[p] = "add_ret"
    /\ accepted' = Record(accepted, SessionId(p), TheEvent(p))
    /\ written' = [written EXCEPT ![p] = 0]
    /\ pc' = [pc EXCEPT ![p] = "ack"]
    /\ UNCHANGED <<events, holder, poisoned, file, logpos, up, req, result,
                   reply, nreq, nfault, nlog, ncrash, arrived, acked,
                   ackedBefore>>
    /\ UNCHANGED dbvars

\* add_event returns: the MutexGuard goes out of scope
AddEventReturn(p) ==
    /\ pc[p] = "add_ret"
    /\ holder' = NoProc
    /\ accepted' = Record(accepted, SessionId(p), TheEvent(p))
    /\ written' = [written EXCEPT ![p] = 0]
    /\ pc' = [pc EXCEPT ![p] = "ack"]
    /\ UNCHANGED <<events, poisoned, file, logpos, up, req, result, reply,
                   nreq, nfault, nlog, ncrash, arrived, acked, ackedBefore>>
    /\ UNCHANGED dbvars

\* handle_log_event: Ok(warp::reply::json(&"Event logged"))
LogEventAck(p) ==
    /\ pc[p] = "ack"
    /\ reply' = [reply EXCEPT ![p] = Msg("Event logged")]
    /\ acked' = acked \cup {TheEvent(p)}
    /\ pc' = [pc EXCEPT ![p] = "idle"]
    /\ UNCHANGED <<events, holder, poisoned, file, logpos, up, req, written,
                   result, nreq, nfault, nlog, ncrash, accepted, arrived,
                   ackedBefore>>
    /\ UNCHANGED dbvars


\* handle_get_events, the outer else branch: no session_id parameter
GetEventsMissing(p) ==
    /\ up /\ pc[p] = "idle" /\ nreq < MaxReqs
    /\ req' = [req EXCEPT ![p] = GetReq(None)]
    /\ reply' = [reply EXCEPT ![p] = Msg("Missing session_id")]
    /\ nreq' = nreq + 1
    /\ UNCHANGED <<events, holder, poisoned, file, logpos, up, pc, written,
                   result, nfault, nlog, ncrash, accepted, arrived, acked,
                   ackedBefore>>
    /\ UNCHANGED dbvars

\* handle_get_events: params.get("session_id") is Some(session_id)
GetEventsStart(p) ==
    /\ up /\ pc[p] = "idle" /\ nreq < MaxReqs
    /\ \E k \in SessionIds : req' = [req EXCEPT ![p] = GetReq(Some(k))]
    /\ reply' = [reply EXCEPT ![p] = NoReply]
    /\ pc' = [pc EXCEPT ![p] = "get_lock"]
    /\ nreq' = nreq + 1
    /\ UNCHANGED <<events, holder, poisoned, file, logpos, up, written,
                   result, nfault, nlog, ncrash, accepted, arrived, acked,
                   ackedBefore>>
    /\ UNCHANGED dbvars

\* get_events: self.events.lock().unwrap(), the Mutex is sound
GetEventsLock(p) ==
    /\ pc[p] = "get_lock" /\ holder = NoProc /\ ~poisoned
    /\ holder' = p
    /\ pc' = [pc EXCEPT ![p] = "get_read"]
    /\ UNCHANGED <<events, poisoned, file, logpos, up, req, written, result,
                   reply, nreq, nfault, nlog, ncrash, accepted, arrived,
                   acked, ackedBefore>>
    /\ UNCHANGED dbvars

\* get_events: self.events.lock().unwrap(), the Mutex is poisoned
GetEventsLockPoisoned(p) ==
    /\ pc[p] = "get_lock" /\ holder = NoProc /\ poisoned
    /\ Panic(p, "PoisonError")
    /\ UNCHANGED <<events, file, logpos, up, req, result, nreq, nfault, nlog,
                   ncrash, accepted, arrived, acked, ackedBefore>>
    /\ UNCHANGED dbvars

\* GetEventsRead that takes the sequence out of the map (remove() for get())
GetEventsReadRemove(p) ==
    /\ pc[p] = "get_read"
    /\ result' = [result EXCEPT ![p] = MapGet(events, QueryKey(p))]
    /\ events' = [k \in DOMAIN events \ {QueryKey(p)} |-> events[k]]
    /\ pc' = [pc EXCEPT ![p] = "get_ret"]
    /\ UNCHANGED <<holder, poisoned, file, logpos, up, req, written,
                   reply, nreq, nfault, nlog, ncrash, accepted, arrived,
                   acked, ackedBefore>>
    /\ UNCHANGED dbvars

\* get_events: events.get(session_id).cloned()
GetEventsRead(p) ==
    /\ pc[p] = "get_read"
    /\ result' = [result EXCEPT ![p] = MapGet(events, QueryKey(p))]
    /\ pc' = [pc EXCEPT ![p] = "get_ret"]
    /\ UNCHANGED <<events, holder, poisoned, file, logpos, up, req, written,
                   reply, nreq, nfault, nlog, ncrash, accepted, arrived,
                   acked, ackedBefore>>
    /\ UNCHANGED dbvars

\* get_events returns: the MutexGuard goes out of scope
GetEventsReturn(p) ==
    /\ pc[p] = "get_ret"
    /\ holder' = NoProc
    /\ pc' = [pc EXCEPT ![p] = "get_reply"]
    /\ UNCHANGED <<events, poisoned, file, logpos, up, req, written, result,
                   reply, nreq, nfault, nlog, ncrash, accepted, arrived,
                   acked, ackedBefore>>
    /\ UNCHANGED dbvars

\* handle_get_events: the reply, the events as JSON or the not-found message
GetEventsReply(p) ==
    /\ pc[p] = "get_reply"
    /\ reply' = [reply EXCEPT ![p] =
                    IF result[p] = None
                    THEN Msg("No events found for session_id")
                    ELSE JsonEvents(result[p][1])]
    /\ result' = [result EXCEPT ![p] = None]
    /\ pc' = [pc EXCEPT ![p] = "idle"]
    /\ UNCHANGED <<events, holder, poisoned, file, logpos, up, req, written,
                   nreq, nfault, nlog, ncrash, accepted, arrived, acked,
                   ackedBefore>>
    /\ UNCHANGED dbvars

\* the WriteLogger that main installs writes one record through its own
\* handle, which File::create opened without append: at that handle's offset
LoggerWrite ==
    /\ up /\ nlog < MaxLogMsgs
    /\ file' = FileWriteAt(file, logpos, LogRecord)
    /\ logpos' = logpos + Len(LogRecord)
    /\ nlog' = nlog + 1
    /\ UNCHANGED <<events, holder, poisoned, up, pc, req, written, result,
                   reply, nreq, nfault, ncrash, accepted, arrived, acked,
                   ackedBefore>>
    /\ UNCHANGED dbvars

\* the process dies: everything in memory is lost, events.log stays
Crash ==
    /\ up /\ ncrash < MaxCrashes
    /\ up' = FALSE
    /\ events' = EmptyMap
    /\ holder' = NoProc
    /\ poisoned' = FALSE
    /\ logpos' = 0
    /\ pc' = [p \in Procs |-> "idle"]
    /\ req' = [p \in Procs |-> NoReq]
    /\ written' = [p \in Procs |-> 0]
    /\ result' = [p \in Procs |-> None]
    /\ reply' = [p \in Procs |-> NoReply]
    /\ accepted' = EmptyMap
    /\ arrived' = EmptyMap
    /\ ackedBefore' = ackedBefore \cup acked
    /\ acked' = {}
    /\ ncrash' = ncrash + 1
    /\ UNCHANGED <<file, nreq, nfault, nlog>>
    /\ UNCHANGED dbvars

\* main, when the process is started again: File::create("events.log")
\* truncates the file, and EventStore::new() makes an empty store
Start ==
    /\ ~up
    /\ up' = TRUE
    /\ file' = <<>>
    /\ logpos' = 0
    /\ UNCHANGED <<events, holder, poisoned, pc, req, written, result, reply,
                   nreq, nfault, nlog, ncrash, accepted, arrived, acked,
                   ackedBefore>>
    /\ UNCHANGED dbvars

\* -------------------------------------------------------- specifications
Next ==
    \/ \E p \in Procs :
          \/ LogEventMissing(p)
          \/ LogEventStart(p)
          \/ AddEventLock(p)
          \/ AddEventLockPoisoned(p)
          \/ AddEventPush(p)
          \/ AddEventOpen(p)
          \/ AddEventOpenFail(p)
          \/ AddEventWrite(p)
          \/ AddEventWriteFail(p)
          \/ AddEventReturn(p)
          \/ LogEventAck(p)
          \/ GetEventsMissing(p)
          \/ GetEventsStart(p)
          \/ GetEventsLock(p)
          \/ GetEventsLockPoisoned(p)
          \/ GetEventsRead(p)
          \/ GetEventsReturn(p)
          \/ GetEventsReply(p)
    \/ LoggerWrite

\* one run of the process
Spec == Init /\ [][Next]_vars

\* the process may crash and be started again
NextRestart == Next \/ Crash \/ Start

SpecRestart == Init /\ [][NextRestart]_vars


\* ------------------------------------------------- observations of a state
\* what a history holds for key k, as an Option like MapGet's
Hist(h, k) == IF k \in DOMAIN h THEN <<h[k]>> ELSE <<>>

IsPrefix(s, t) == Len(s) <= Len(t) /\ SubSeq(t, 1, Len(s)) = s

\* the complete record of event e stands somewhere in events.log
InLog(e) ==
    \E i \in 1..Len(file) :
        /\ i + Len(Format(e)) - 1 <= Len(file)
        /\ SubSeq(file, i, i + Len(Format(e)) - 1) = Format(e)

\* event e is in the in-memory store under its key
InStore(e) ==
    /\ e.content # None
    /\ e.content[1] \in DOMAIN events
    /\ \E i \in 1..Len(events[e.content[1]]) : events[e.content[1]][i] = e


\* ------------------------------------------------------------------ claims

\* C1: whenever get_events returns for key k, it returns exactly the events
\* whose add_event returned without error for k, in that order: nothing
\* missing, reordered, duplicated or of another key (None when there are none).
C1_QueryReturnsAccepted ==
    \A p \in Procs :
        pc[p] = "get_ret" => result[p] = Hist(accepted, QueryKey(p))

\* a query returns two different events of one key, in the accepted order
C1_Witness ==
    \E p \in Procs :
        /\ pc[p] = "get_ret"
        /\ result[p] # None
        /\ Len(result[p][1]) = 2
        /\ result[p][1][1] # result[p][1][2]

\* C2: every event acknowledged with "Event logged" has its record in
\* events.log and is in the in-memory store under its key.
C2_AckedDurableAndIndexed ==
    \A e \in acked : InLog(e) /\ InStore(e)

\* C3: after an ingestion whose open or write of events.log failed, the store
\* holds for every key what it held before that ingestion, that is the events
\* of the ingestions that succeeded.
C3_FailedWriteLeavesStore ==
    poisoned => \A k \in SessionIds : MapGet(events, k) = Hist(accepted, k)

\* C4: a failed durable-log write fails that ingestion only: no later
\* ingestion or query fails because of it.
C4_LaterRequestsServed ==
    \A p \in Procs : reply[p] # Msg("PoisonError")


\* a step in which task p receives a log_event request whose content is None
\* and answers it at once
RejectsMissingKey(p) ==
    /\ pc[p] = "idle" /\ pc'[p] = "idle"
    /\ nreq' = nreq + 1
    /\ req'[p].kind = "log_event"
    /\ req'[p].event[1].content = None
    /\ \A q \in Procs \ {p} :
          req'[q] = req[q] /\ reply'[q] = reply[q] /\ pc'[q] = pc[q]

\* C5: an ingestion whose content is None is answered "Missing session_id"
\* and changes neither the in-memory store nor events.log.
C5_MissingKeyNoSideEffect ==
    [][\A p \in Procs :
          RejectsMissingKey(p) =>
             /\ reply'[p] = Msg("Missing session_id")
             /\ events' = events
             /\ file' = file]_vars

\* an ingestion without key was rejected while the store and the log hold
\* an earlier event
C5_Witness ==
    \E p \in Procs :
        /\ pc[p] = "idle"
        /\ req[p].kind = "log_event"
        /\ req[p].event[1].content = None
        /\ reply[p] = Msg("Missing session_id")
        /\ events # EmptyMap
        /\ file # <<>>

\* C6: the empty string is never a key of the in-memory store, and no record
\* of an event whose key is the empty string is written to events.log.
C6_EmptyKeyRejected ==
    /\ "" \notin DOMAIN events
    /\ \A i \in 1..Len(file) :
          file[i][1] = "Event" => file[i][4] # Some("")

\* C7: get_events returns None exactly when no event was accepted for the
\* key, it never returns an empty sequence, and every key of the store maps
\* to a non-empty sequence.
C7_NotFoundIffNeverAccepted ==
    /\ \A k \in DOMAIN events : events[k] # <<>>
    /\ \A p \in Procs :
          pc[p] = "get_ret" =>
             /\ result[p] = None <=> QueryKey(p) \notin DOMAIN accepted
             /\ result[p] # Some(<<>>)
    /\ \A p \in Procs : reply[p] # JsonEvents(<<>>)

\* a query of a key never written returns None while the store holds
\* another key
C7_Witness ==
    \E p \in Procs :
        /\ pc[p] = "get_ret"
        /\ result[p] = None
        /\ events # EmptyMap
        /\ QueryKey(p) \notin DOMAIN events

\* the task, if any, that holds the lock for key k and has not pushed yet
Pushing(k) == {p \in Procs : pc[p] = "add_push" /\ SessionId(p) = k}

\* C8: an ingestion for key k changes the sequence of no other key, and the
\* sequence of each key is the events of that key in the order in which
\* their add_event calls took the lock.
C8_DistinctKeysIndependent ==
    /\ [](\A k \in SessionIds :
             Hist(arrived, k) =
                IF Pushing(k) = {} THEN MapGet(events, k)
                ELSE Some((IF k \in DOMAIN events THEN events[k] ELSE <<>>)
                          \o <<TheEvent(CHOOSE p \in Pushing(k) : TRUE)>>))
    /\ [][\A k \in SessionIds :
             MapGet(events, k)' # MapGet(events, k) => Pushing(k) # {}]_vars

\* two ingestions on different keys run at once: one holds the lock and has
\* pushed, the other waits for the lock, and the store holds both keys
C8_Witness ==
    \E p \in Procs, q \in Procs :
        /\ pc[p] = "add_open" /\ pc[q] = "add_lock"
        /\ SessionId(p) # SessionId(q)
        /\ SessionId(p) \in DOMAIN events
        /\ SessionId(q) \in DOMAIN events

\* C9: while the process runs, every write to events.log, by add_event or by
\* the logger, keeps the previous content as a prefix of the new content.
C9_AppendOnly ==
    [][(up /\ up') => IsPrefix(file, file')]_vars

\* C10: after a crash and a new start, every event acknowledged before the
\* crash still has its record in events.log.
C10_AckedSurviveRestart ==
    up => \A e \in ackedBefore : InLog(e)


\* the key of a sequence of events that get_events returned
KeyOf(v) == v[1].content[1]

\* C11: what get_events returned is a snapshot: a result a reader holds is
\* not changed by the steps of other tasks, every result returned so far is
\* a prefix of the store's present sequence of its key (so of every later
\* result for that key), and a key's sequence never shrinks or disappears.
C11_SnapshotPrefix ==
    /\ [](\A p \in Procs :
             /\ reply[p].msg = "events" =>
                   /\ KeyOf(reply[p].events) \in DOMAIN events
                   /\ IsPrefix(reply[p].events,
                               events[KeyOf(reply[p].events)])
             /\ (pc[p] \in {"get_ret", "get_reply"} /\ result[p] # None) =>
                   /\ QueryKey(p) \in DOMAIN events
                   /\ IsPrefix(result[p][1], events[QueryKey(p)]))
    /\ [][/\ \A k \in DOMAIN events :
                k \in DOMAIN events' /\ IsPrefix(events[k], events'[k])
          /\ \A p \in Procs :
                (reply[p].msg = "events" /\ pc[p] = "idle" /\ pc'[p] = "idle"
                 /\ req'[p] = req[p] /\ reply'[p].msg = "events")
                   => reply'[p] = reply[p]]_vars

\* a reader holds a result of one event while the store has since got a
\* second event for the same key
C11_Witness ==
    \E p \in Procs :
        /\ reply[p].msg = "events"
        /\ Len(reply[p].events) = 1
        /\ Len(events[KeyOf(reply[p].events)]) = 2


\* C13: an event's record is appended to events.log before the event is
\* put into the in-memory store: every event in the store has its record in
\* the log.
C13_PersistBeforeIndex ==
    \A k \in DOMAIN events :
        \A i \in 1..Len(events[k]) : InLog(events[k][i])

\* C14: no task holds the store's Mutex while it opens or writes events.log.
C14_NoLockAcrossIO ==
    \A p \in Procs : pc[p] \in {"add_open", "add_write"} => holder # p

\* the event a record's field dump stands for
Unformat(t) == [event_type |-> t[2], timestamp |-> t[3], content |-> t[4]]

\* the events of the complete records of f from token i on, in file order
RECURSIVE Parse(_, _)
Parse(f, i) ==
    IF i > Len(f) THEN <<>>
    ELSE IF f[i][1] = "Event" /\ i < Len(f) /\ f[i + 1] = <<"\n">>
         THEN <<Unformat(f[i])>> \o Parse(f, i + 2)
         ELSE Parse(f, i + 1)

IsOfKey(k, e) == e.content = Some(k)

\* the events of key k among a sequence of events, in order
OfKey(v, k) ==
    LET Test(e) == IsOfKey(k, e) IN SelectSeq(v, Test)

\* C15: whenever no add_event is under way, events.log holds one record per
\* event of the store, in arrival order: for every key the events of its
\* records, in file order, are the store's sequence for the key.
C15_LogAgreesWithStore ==
    holder = NoProc =>
        \A k \in SessionIds :
            OfKey(Parse(file, 1), k) =
               (IF k \in DOMAIN events THEN events[k] ELSE <<>>)

\* the last n tokens of f
Tail_(f, n) == SubSeq(f, Len(f) - n + 1, Len(f))

\* task p has begun but not finished the write of its record
MidWrite(p) ==
    pc[p] = "add_write" /\ written[p] > 0
    /\ written[p] < Len(Format(TheEvent(p)))

\* C16: the records of concurrent ingestions do not interleave: while the
\* record of one add_event is partly written no other add_event writes to
\* events.log, and what add_event has written of its record stands
\* contiguous at the end of the file (as long as the logger has not written).
C16_AppendsAtomic ==
    /\ [](\A p \in Procs :
             (pc[p] \in {"add_write", "add_ret"} /\ nlog = 0) =>
                /\ written[p] <= Len(file)
                /\ Tail_(file, written[p])
                      = SubSeq(Format(TheEvent(p)), 1, written[p]))
    /\ [][\A p \in Procs :
             (MidWrite(p) /\ file' # file) =>
                (written'[p] # written[p] \/ nlog' # nlog)]_vars

\* one task has written half of its record while another ingestion waits
\* for the lock, and the file holds an earlier record
C16_Witness ==
    \E p \in Procs, q \in Procs :
        /\ MidWrite(p)
        /\ pc[q] = "add_lock"
        /\ nlog = 0
        /\ Len(file) = 3

\* a step of handle_get_events by task p
QueryStep(p) ==
    \/ pc[p] \in {"get_lock", "get_read", "get_ret", "get_reply"}
       /\ pc'[p] # pc[p]
    \/ pc[p] = "idle" /\ pc'[p] = "get_lock"
    \/ /\ pc[p] = "idle" /\ pc'[p] = "idle"
       /\ nreq' = nreq + 1
       /\ req'[p].kind = "get_events"
       /\ \A q \in Procs \ {p} :
             req'[q] = req[q] /\ reply'[q] = reply[q] /\ pc'[q] = pc[q]

\* C17: every step of handle_get_events, with or without session_id, found
\* or not, leaves the in-memory store and events.log unchanged, and what
\* get_events returns is what the store holds for the requested key.
C17_QueryReadOnly ==
    [][\A p \in Procs :
          QueryStep(p) =>
             /\ events' = events
             /\ file' = file
             /\ (pc[p] = "get_read" /\ pc'[p] = "get_ret") =>
                   result'[p] = Hist(events, QueryKey(p))]_vars

\* a query has read a store that holds events, with records in the log
C17_Witness ==
    \E p \in Procs :
        /\ pc[p] = "get_ret"
        /\ result[p] # None
        /\ file # <<>>


\* ------------------------------------------- a run without I/O faults
\* the steps by which task p goes on with the request it has; without a
\* failing open or write no task panics, so the Mutex is never poisoned
TaskStep(p) ==
    \/ AddEventLock(p)
    \/ AddEventPush(p)
    \/ AddEventOpen(p)
    \/ AddEventWrite(p)
    \/ AddEventReturn(p)
    \/ LogEventAck(p)
    \/ GetEventsLock(p)
    \/ GetEventsRead(p)
    \/ GetEventsReturn(p)
    \/ GetEventsReply(p)

\* requests and the tasks' steps; the logger is left out here: it writes
\* events.log only, which no step of a task waits for
NextLive ==
    \E p \in Procs :
       \/ LogEventMissing(p)
       \/ LogEventStart(p)
       \/ GetEventsMissing(p)
       \/ GetEventsStart(p)
       \/ TaskStep(p)

\* every task that can take a step of its request eventually takes one
SpecLive == Init /\ [][NextLive]_vars /\ \A p \in Procs : WF_vars(TaskStep(p))

Served == {"Event logged", "events", "No events found for session_id"}

\* C19: without I/O faults and under fair scheduling every request that was
\* begun is eventually answered, and a task holds the store's lock only
\* inside add_event or get_events: it is released when they return.
C19_RequestsComplete ==
    /\ [](\A p \in Procs :
             pc[p] \in {"idle", "add_lock", "ack", "get_lock", "get_reply"}
                => holder # p)
    /\ \A p \in Procs :
          (pc[p] # "idle") ~> (pc[p] = "idle" /\ reply[p].msg \in Served)

\* one task is writing events.log with the lock held while the other waits
\* for the lock
C19_Witness ==
    \E p \in Procs, q \in Procs :
        /\ pc[p] = "add_write" /\ holder = p
        /\ pc[q] \in {"add_lock", "get_lock"}


\* ------------------------------------- the relational sink (capture.rs)
\* Bind with the first two parameters in the wrong order
BindSwapped(ev) == <<ev.event_type, ev.user_id, ev.timestamp, ev.data>>

\* the parameter list of client.execute: &[&event.user_id,
\* &event.event_type, &event.timestamp, &event.data]
Bind(ev) == <<ev.user_id, ev.event_type, ev.timestamp, ev.data>>

\* INSERT INTO events (user_id, event_type, timestamp, data)
\* VALUES ($1, $2, $3, $4): the row the backend adds for the parameters
InsertRow(params) ==
    [user_id |-> params[1], event_type |-> params[2],
     timestamp |-> params[3], data |-> params[4]]

\* a caller calls insert_event(event)
InsertEventCall(d) ==
    /\ dbpc[d] = "idle" /\ ndbreq < MaxDbReqs
    /\ \E ev \in DbEvent : dbEvent' = [dbEvent EXCEPT ![d] = ev]
    /\ dbpc' = [dbpc EXCEPT ![d] = "db_lock"]
    /\ dbResp' = [dbResp EXCEPT ![d] = NoResult]
    /\ dbResult' = [dbResult EXCEPT ![d] = NoResult]
    /\ ndbreq' = ndbreq + 1
    /\ UNCHANGED <<dbHolder, inflight, rows, ndberr, inserted>>
    /\ UNCHANGED capvars

\* InsertEventLock that does not wait for the lock to be free
InsertEventLockAny(d) ==
    /\ dbpc[d] = "db_lock"
    /\ dbHolder' = d
    /\ dbpc' = [dbpc EXCEPT ![d] = "db_locked"]
    /\ UNCHANGED <<dbEvent, inflight, rows, dbResp, dbResult, ndbreq, ndberr,
                   inserted>>
    /\ UNCHANGED capvars

\* insert_event: let client = self.db_client.lock().await
InsertEventLock(d) ==
    /\ dbpc[d] = "db_lock" /\ dbHolder = NoProc
    /\ dbHolder' = d
    /\ dbpc' = [dbpc EXCEPT ![d] = "db_locked"]
    /\ UNCHANGED <<dbEvent, inflight, rows, dbResp, dbResult, ndbreq, ndberr,
                   inserted>>
    /\ UNCHANGED capvars

\* insert_event: client.execute(stmt, params) sends the statement and the
\* caller awaits the answer
InsertEventExecute(d) ==
    /\ dbpc[d] = "db_locked"
    /\ inflight' = inflight \cup {[by |-> d, params |-> Bind(dbEvent[d])]}
    /\ dbpc' = [dbpc EXCEPT ![d] = "db_exec"]
    /\ UNCHANGED <<dbHolder, dbEvent, rows, dbResp, dbResult, ndbreq, ndberr,
                   inserted>>
    /\ UNCHANGED capvars

\* the backend executes the statement of caller d: one row is added
BackendOk(d) ==
    /\ \E st \in inflight :
          /\ st.by = d
          /\ rows' = Append(rows, InsertRow(st.params))
          /\ inflight' = inflight \ {st}
    /\ dbResp' = [dbResp EXCEPT ![d] = Ok]
    /\ UNCHANGED <<dbHolder, dbpc, dbEvent, dbResult, ndbreq, ndberr,
                   inserted>>
    /\ UNCHANGED capvars

\* the backend answers the statement of caller d with an error: no row
BackendErr(d) ==
    /\ ndberr < MaxDbErrors
    /\ \E st \in inflight :
          /\ st.by = d
          /\ inflight' = inflight \ {st}
    /\ \E e \in PgErrors : dbResp' = [dbResp EXCEPT ![d] = Err(e)]
    /\ ndberr' = ndberr + 1
    /\ UNCHANGED <<dbHolder, dbpc, dbEvent, rows, dbResult, ndbreq, inserted>>
    /\ UNCHANGED capvars

\* insert_event: execute returned Ok: info!(...), Ok(()), the guard is dropped
InsertEventReturnOk(d) ==
    /\ dbpc[d] = "db_exec" /\ dbResp[d].kind = "Ok"
    /\ dbResult' = [dbResult EXCEPT ![d] = Ok]
    /\ inserted' = Append(inserted, dbEvent[d])
    /\ dbHolder' = NoProc
    /\ dbpc' = [dbpc EXCEPT ![d] = "idle"]
    /\ UNCHANGED <<dbEvent, inflight, rows, dbResp, ndbreq, ndberr>>
    /\ UNCHANGED capvars

\* InsertEventReturnErr that leaves the client locked
InsertEventReturnErrLocked(d) ==
    /\ dbpc[d] = "db_exec" /\ dbResp[d].kind = "Err"
    /\ dbResult' = [dbResult EXCEPT ![d] = Err(dbResp[d].err)]
    /\ dbpc' = [dbpc EXCEPT ![d] = "idle"]
    /\ UNCHANGED <<dbHolder, dbEvent, inflight, rows, dbResp, ndbreq, ndberr,
                   inserted>>
    /\ UNCHANGED capvars

\* insert_event: execute returned Err(e): `?` returns Err(e), the guard is
\* dropped
InsertEventReturnErr(d) ==
    /\ dbpc[d] = "db_exec" /\ dbResp[d].kind = "Err"
    /\ dbResult' = [dbResult EXCEPT ![d] = Err(dbResp[d].err)]
    /\ dbHolder' = NoProc
    /\ dbpc' = [dbpc EXCEPT ![d] = "idle"]
    /\ UNCHANGED <<dbEvent, inflight, rows, dbResp, ndbreq, ndberr, inserted>>
    /\ UNCHANGED capvars

\* the steps of caller d inside insert_event
CallerStep(d) ==
    \/ InsertEventLock(d)
    \/ InsertEventExecute(d)
    \/ InsertEventReturnOk(d)
    \/ InsertEventReturnErr(d)

\* the backend answers the statement of caller d
BackendAnswer(d) == BackendOk(d) \/ BackendErr(d)

NextDb ==
    \E d \in Callers :
       \/ InsertEventCall(d)
       \/ InsertEventLock(d)
       \/ InsertEventExecute(d)
       \/ BackendOk(d)
       \/ BackendErr(d)
       \/ InsertEventReturnOk(d)
       \/ InsertEventReturnErr(d)

\* concurrent calls of insert_event on one EventCapture
SpecDb == Init /\ [][NextDb]_vars

\* the same, where every caller that can go on does, and the backend answers
\* every statement
SpecDbFair ==
    /\ Init /\ [][NextDb]_vars
    /\ \A d \in Callers : WF_vars(CallerStep(d)) /\ WF_vars(BackendAnswer(d))

\* C12: at most one statement is in flight on the shared client at any time,
\* and the caller whose statement is in flight, or who awaits its answer,
\* holds the client lock.
C12_OneStatementInFlight ==
    /\ Cardinality(inflight) <= 1
    /\ \A st \in inflight : dbHolder = st.by
    /\ \A d \in Callers : dbpc[d] = "db_exec" => dbHolder = d

\* a statement is in flight while another caller waits for the lock
C12_Witness ==
    \E d \in Callers, w \in Callers :
        /\ \E st \in inflight : st.by = d
        /\ dbpc[w] = "db_lock"

\* the row of the table that holds the four fields of event ev
RowOf(ev) ==
    [user_id |-> ev.user_id, event_type |-> ev.event_type,
     timestamp |-> ev.timestamp, data |-> ev.data]

\* the callers whose INSERT the backend has executed and who have not
\* returned yet
Executed == {d \in Callers : dbpc[d] = "db_exec" /\ dbResp[d].kind = "Ok"}

\* C18: insert_event returns Ok exactly when the backend executed the
\* INSERT, and then one row holding the event's four fields was added: the
\* table is the rows of the events reported Ok, in order, plus the row of a
\* caller that has not returned yet; on an error of the backend insert_event
\* returns that error and the event is not reported inserted.
C18_InsertResult ==
    /\ rows = [i \in 1..Len(inserted) |-> RowOf(inserted[i])]
              \o (IF Executed = {} THEN <<>>
                  ELSE <<RowOf(dbEvent[CHOOSE d \in Executed : TRUE])>>)
    /\ \A d \in Callers :
          (dbpc[d] = "idle" /\ dbResult[d] # NoResult) =>
             /\ dbResult[d] = dbResp[d]
             /\ dbResult[d].kind = "Ok" =>
                   \E i \in 1..Len(inserted) : inserted[i] = dbEvent[d]

\* one call returned Ok, with its row in the table, and another returned the
\* backend's error
C18_Witness ==
    \E d \in Callers, f \in Callers :
        /\ dbpc[d] = "idle" /\ dbResult[d] = Ok
        /\ dbpc[f] = "idle" /\ dbResult[f].kind = "Err"
        /\ Len(rows) = 1
        /\ rows[1] = RowOf(dbEvent[d])

\* C20: the client lock is released when insert_event returns, with Ok or
\* with Err: a caller outside the locked part does not hold it, and, the
\* backend answering every statement, every call that was begun returns.
C20_LockReleasedOnReturn ==
    /\ [](\A d \in Callers : dbpc[d] \in {"idle", "db_lock"} => dbHolder # d)
    /\ \A d \in Callers :
          (dbpc[d] # "idle") ~> (dbpc[d] = "idle" /\ dbResult[d] # NoResult)

\* after a call failed, another caller holds the client lock
C20_Witness ==
    \E d \in Callers, w \in Callers :
        /\ dbpc[d] = "idle" /\ dbResult[d].kind = "Err"
        /\ dbHolder = w
        /\ dbpc[w] = "db_exec"

====
